---------------------------- MODULE Spec2Model ----------------------------
(***************************************************************************)
(* Model of the ESP8266 telemetry agent: src/src/main.cpp (session,        *)
(* credential, publish cadence, JSON encode) and                           *)
(* src/src/processing_functions.cpp (serial frame decode).                 *)
(*                                                                         *)
(* Text is modelled as sequences of one-character strings so that strtok   *)
(* and atoi are computed character by character.  Time is one variable,    *)
(* now, in milliseconds since boot: millis() is now modulo 2^32 and        *)
(* time(NULL) is BootEpoch + now \div 1000.                                *)
(***************************************************************************)
EXTENDS Integers, Sequences, FiniteSets, TLC

VARIABLES
  pc,                           \* position of the single execution context
  cfg,                          \* the build's configuration (config.h, device identity)
  now,                          \* milliseconds since boot
  connected,                    \* mqtt_client.connected()
  subscribed,                   \* the C2D subscription exists on the current connection
  sas_token,                    \* the credential held in sas_token[]
  cycle,                        \* bookkeeping of the current establishConnection() call
  lastAttempt,                  \* the most recent mqtt_client.connect() call
  tick,                         \* bookkeeping of the current loop() iteration
  next_telemetry_send_time_ms,  \* main.cpp:86
  telemetry_send_count,         \* main.cpp:89
  payload_data,                 \* main.cpp:92
  receivedData,                 \* the line last handed to processData()
  prior,                        \* payload_data as it was before the last processData()
  telemetry_payload,            \* main.cpp:88, as the pieces written one after another
  written,                      \* one past the highest index of telemetry_payload written
  lastPub                       \* the most recent mqtt_client.publish() call

vars == <<pc, cfg, now, connected, subscribed, sas_token, cycle, lastAttempt, tick,
          next_telemetry_send_time_ms, telemetry_send_count, payload_data,
          receivedData, prior, telemetry_payload, written, lastPub>>

(***************************************************************************)
(* Integer widths                                                          *)
(***************************************************************************)
Pow2(w) == 2 ^ w

\* Conversion of an int to an unsigned field of w bits (C's modular conversion).
ToUnsigned(w, v) == v % Pow2(w)

\* A uint32_t (unsigned long is 32 bits wide on this target) is kept as its
\* two 16-bit halves << high, low >>, so that every value up to 2^32-1 and the
\* wrap to 0 are represented.
Half == Pow2(16)

U32(n) == << (n \div Half) % Half, n % Half >>

U32Max == << Half - 1, Half - 1 >>

\* x + n modulo 2^32, for a uint32_t x and 0 <= n < 2^31.
U32Add(x, n) ==
  LET lo == x[2] + (n % Half)
      hi == x[1] + (n \div Half) + (lo \div Half)
  IN  << hi % Half, lo % Half >>

\* x > y as unsigned numbers.
U32Gt(x, y) == x[1] > y[1] \/ (x[1] = y[1] /\ x[2] > y[2])

U32Ge(x, y) == x = y \/ U32Gt(x, y)

\* 10 * x and x - 1 modulo 2^32.
U32Mul10(x) ==
  LET lo == x[2] * 10
  IN  << (x[1] * 10 + (lo \div Half)) % Half, lo % Half >>

U32Pred(x) ==
  IF x[2] > 0 THEN << x[1], x[2] - 1 >> ELSE << (x[1] - 1) % Half, Half - 1 >>

RECURSIVE U32Pow10(_)
U32Pow10(d) == IF d = 0 THEN U32(1) ELSE U32Mul10(U32Pow10(d - 1))

(***************************************************************************)
(* payload_structure (include/payload.h)                                   *)
(***************************************************************************)
\* The fields in the order processData() assigns values[0..19] to them.
FieldOrder ==
  << "sensor_1_type", "sensor_1_temperature", "sensors_1_humidity",
     "sensor_1_light", "sensor_1_CO2",
     "sensor_2_type", "sensor_2_temperature", "sensors_2_humidity",
     "sensor_2_light", "sensor_2_CO2",
     "fan_1_type", "fan_1_set_percent", "fan_1_speed",
     "fan_2_type", "fan_2_set_percent", "fan_2_speed",
     "relay_CO2", "relay_programmable_1", "relay_programmable_2", "pwm_light" >>

NumFields == Len(FieldOrder)

FieldNames == { FieldOrder[i] : i \in 1..NumFields }

\* uint16_t fields of payload_structure; every other field is uint8_t.
WideFields ==
  { "sensor_1_temperature", "sensor_1_CO2", "sensor_2_temperature",
    "sensor_2_CO2", "fan_1_speed", "fan_2_speed" }

FieldWidth(f) == IF f \in WideFields THEN 16 ELSE 8

FieldMax(f) == Pow2(FieldWidth(f)) - 1

\* A payload_structure built from 20 numbers given in FieldOrder.
RecordOf(vals) ==
  [ f \in FieldNames |->
      LET i == CHOOSE k \in 1..NumFields : FieldOrder[k] = f
      IN  ToUnsigned(FieldWidth(f), vals[i]) ]

\* The global payload_data before any frame: zero-initialised static storage.
ZeroRecord == [ f \in FieldNames |-> 0 ]

(***************************************************************************)
(* Text: characters, atoi, strtok                                          *)
(***************************************************************************)
DigitChars == << "0", "1", "2", "3", "4", "5", "6", "7", "8", "9" >>

IsDigit(c) == \E d \in 1..10 : DigitChars[d] = c

DigitVal(c) == (CHOOSE d \in 1..10 : DigitChars[d] = c) - 1

IsSpace(c) == c \in { " ", "\t", "\r" }

\* The decimal rendering of n >= 0 as characters.
RECURSIVE DecChars(_)
DecChars(n) ==
  IF n < 10 THEN << DigitChars[n + 1] >>
  ELSE DecChars(n \div 10) \o << DigitChars[(n % 10) + 1] >>

\* The value of the leading run of digits of s, continuing from acc.
RECURSIVE AtoiDigits(_, _)
AtoiDigits(s, acc) ==
  IF s = << >> \/ ~IsDigit(Head(s)) THEN acc
  ELSE AtoiDigits(Tail(s), acc * 10 + DigitVal(Head(s)))

RECURSIVE SkipSpace(_)
SkipSpace(s) ==
  IF s # << >> /\ IsSpace(Head(s)) THEN SkipSpace(Tail(s)) ELSE s

\* atoi(): leading white space, an optional sign, then digits up to the first
\* character that is not a digit; 0 when there is no digit at all.
atoi(token) ==
  LET s == SkipSpace(token)
  IN  IF s = << >> THEN 0
      ELSE IF Head(s) = "-" THEN 0 - AtoiDigits(Tail(s), 0)
      ELSE IF Head(s) = "+" THEN AtoiDigits(Tail(s), 0)
      ELSE AtoiDigits(s, 0)

\* The successive results of strtok(data, ","), strtok(NULL, ","), ... until
\* NULL: the maximal runs of characters other than ','; cur is the run being read.
RECURSIVE StrtokFrom(_, _)
StrtokFrom(s, cur) ==
  IF s = << >> THEN (IF cur = << >> THEN << >> ELSE << cur >>)
  ELSE IF Head(s) = ","
       THEN (IF cur = << >> THEN StrtokFrom(Tail(s), << >>)
             ELSE << cur >> \o StrtokFrom(Tail(s), << >>))
       ELSE StrtokFrom(Tail(s), Append(cur, Head(s)))

strtok(data) == StrtokFrom(data, << >>)

(***************************************************************************)
(* processData (processing_functions.cpp)                                  *)
(***************************************************************************)
MAX_TOKEN_LENGTH == 20

\* Faulty loop bounds, for comparison: one token fewer is converted, or one
\* more.
LoopBound_Short == MAX_TOKEN_LENGTH - 1

LoopBound_Long == MAX_TOKEN_LENGTH + 1

\* The bound of the conversion loop: i < MAX_TOKEN_LENGTH.
LoopBound == MAX_TOKEN_LENGTH

\* int values[20]: the number of slots.
ValuesSize == 20

\* The slots of values[] the conversion loop writes (counted from 1): one for
\* each token, as long as i < MAX_TOKEN_LENGTH.
SlotsWritten(data) == { i \in 1..Len(strtok(data)) : i <= LoopBound }

\* A faulty conversion loop, for comparison: it stops before the last token.
ValuesAfterLoop_StopsEarly(data, garbage) ==
  LET toks == strtok(data)
  IN  [ i \in 1..NumFields |->
          IF i <= LoopBound /\ i < Len(toks) THEN atoi(toks[i]) ELSE garbage[i] ]

\* int values[20] after the conversion loop.  The array is not initialised:
\* a slot the loop does not reach holds the indeterminate value garbage[i].
ValuesAfterLoop(data, garbage) ==
  LET toks == strtok(data)
      slots == SlotsWritten(data)
  IN  [ i \in 1..NumFields |->
          IF i \in slots THEN atoi(toks[i]) ELSE garbage[i] ]

\* processData(): every field is assigned from its slot of values[], converted
\* to the field's unsigned type.
processData(data, garbage) == RecordOf(ValuesAfterLoop(data, garbage))

\* Contents the uninitialised values[] may hold on entry: one value in every
\* slot, or what the previous call left on the stack (the previous record).
GarbageInts == { 0, -1 }

GarbageChoices(rec) ==
  { [ i \in 1..NumFields |-> g ] : g \in GarbageInts }
    \cup { [ i \in 1..NumFields |-> rec[FieldOrder[i]] ] }

(***************************************************************************)
(* Input frames                                                            *)
(***************************************************************************)
\* The example frame of the interface description, and a frame of field maxima.
FrameA == << 1, 250, 45, 10, 400, 1, 250, 45, 10, 400,
             1, 50, 1200, 1, 50, 1200, 1, 0, 0, 5 >>

FrameB == [ i \in 1..NumFields |-> FieldMax(FieldOrder[i]) ]

BaseFrames == { FrameA, FrameB }

\* Tokens put in place of one token of a frame: numbers beyond a field's
\* width, a negative number, leading zeros and white space, text that is not
\* a number, digits followed by text, and the empty token.
OddTokens ==
  { DecChars(256), DecChars(65536), << "-", "1" >>, << "0", "0", "7" >>,
    << " ", "4", "2" >>, << "x" >>, << "1", "2", "a" >>, << >> }

MaxTokens == 21

\* The tokens of frame b cut or repeated to n tokens.
FrameTokens(b, n) == [ i \in 1..n |-> DecChars(b[((i - 1) % NumFields) + 1]) ]

RECURSIVE Join(_)
Join(toks) ==
  IF toks = << >> THEN << >>
  ELSE IF Len(toks) = 1 THEN toks[1]
  ELSE toks[1] \o << "," >> \o Join(Tail(toks))

\* The lines the serial port delivers in this model.
InputLines ==
  { Join(FrameTokens(b, n)) : b \in BaseFrames, n \in 0..MaxTokens }
    \cup { Join([ FrameTokens(b, n) EXCEPT ![p] = t ]) :
             b \in BaseFrames, n \in { NumFields - 1, NumFields },
             p \in 1..(NumFields - 1), t \in OddTokens }

PriorRecords == { ZeroRecord, RecordOf(FrameA), RecordOf(FrameB) }

\* A token that is a base-10 integer: an optional '-' and at least one digit.
IsNumeric(token) ==
  LET body == IF token # << >> /\ Head(token) = "-" THEN Tail(token) ELSE token
  IN  body # << >> /\ \A i \in 1..Len(body) : IsDigit(body[i])

(***************************************************************************)
(* Values of the variables a specification does not use                    *)
(***************************************************************************)
NoToken == [ issuedAt |-> 0, expiration |-> 0, signedExpiry |-> 0, presented |-> 0,
             signed |-> FALSE ]
NoCycle == [ caller |-> "none", attempts |-> 0, rejects |-> 0, backoffs |-> 0, result |-> "none" ]
NoAttempt == [ n |-> 0, at |-> 0, time |-> 0, expiration |-> 0, presented |-> 0 ]
NoTick == [ n |-> 0, conn |-> TRUE, now |-> U32(0), due |-> U32(0),
            cycle |-> FALSE, pub |-> FALSE, decoded |-> FALSE, count |-> U32(0) ]
NoPub == [ n |-> 0, connected |-> TRUE, subscribed |-> TRUE, msgCount |-> U32(0),
           at |-> 0 ]
NoCfg == [ signOk |-> TRUE, idOk |-> TRUE, topicOk |-> TRUE, interval |-> 0,
           millisBase |-> U32(0), countBase |-> U32(0) ]

(***************************************************************************)
(* Specification of the decoder alone: processData() applied to one line   *)
(***************************************************************************)
SessionIdle ==
  /\ cfg = NoCfg /\ now = 0 /\ connected = FALSE /\ subscribed = FALSE
  /\ sas_token = NoToken /\ cycle = NoCycle /\ lastAttempt = NoAttempt
  /\ tick = NoTick /\ next_telemetry_send_time_ms = U32(0) /\ lastPub = NoPub

InitDecode ==
  /\ pc = "decode"
  /\ payload_data \in PriorRecords
  /\ receivedData \in InputLines
  /\ prior = payload_data
  /\ telemetry_send_count = U32(0)
  /\ telemetry_payload = << >>
  /\ written = 0
  /\ SessionIdle

\* processData(receivedData, &payload_data)
Decode ==
  /\ pc = "decode"
  /\ \E garbage \in GarbageChoices(payload_data) :
       payload_data' = processData(receivedData, garbage)
  /\ prior' = payload_data
  /\ pc' = "decoded"
  /\ UNCHANGED <<cfg, now, connected, subscribed, sas_token, cycle, lastAttempt, tick,
                 next_telemetry_send_time_ms, telemetry_send_count, receivedData,
                 telemetry_payload, written, lastPub>>

NextDecode == Decode

SpecDecode == InitDecode /\ [][NextDecode]_vars


\* The number of tokens strtok() finds in the line.
NumTokens(data) == Len(strtok(data))

\* The integer a numeric token denotes, read from its last digit backwards.
RECURSIVE DigitsValue(_)
DigitsValue(s) ==
  IF Len(s) = 1 THEN DigitVal(s[1])
  ELSE 10 * DigitsValue(SubSeq(s, 1, Len(s) - 1)) + DigitVal(s[Len(s)])

NumericValue(token) ==
  IF Head(token) = "-" THEN 0 - DigitsValue(Tail(token)) ELSE DigitsValue(token)

\* C4: a frame with fewer than 20 tokens is rejected without touching the
\* record: after processData() of a line with 0..19 tokens every field of
\* payload_data equals its value before the call.
C4_ShortFrameLeavesRecord ==
  (pc = "decoded" /\ NumTokens(receivedData) < NumFields) => payload_data = prior

\* C5: a frame with a token that is not a base-10 integer is rejected without
\* touching the record: after processData() of a 20-token line with such a
\* token every field of payload_data equals its value before the call.
C5_NonNumericLeavesRecord ==
  ( /\ pc = "decoded"
    /\ NumTokens(receivedData) = NumFields
    /\ \E i \in 1..NumFields : ~IsNumeric(strtok(receivedData)[i]) )
  => payload_data = prior

\* A line of exactly 20 base-10 integer tokens, each within the range of the
\* field it is assigned to.
WellFormed(data) ==
  /\ NumTokens(data) = NumFields
  /\ \A i \in 1..NumFields :
       /\ IsNumeric(strtok(data)[i])
       /\ NumericValue(strtok(data)[i]) \in 0..FieldMax(FieldOrder[i])

\* C6: decode is exact on well-formed input: after processData() of a line of
\* exactly 20 integer tokens that fit the declared field widths, the i-th field
\* in the documented order equals the integer value of the i-th token.
C6_DecodeExact ==
  (pc = "decoded" /\ WellFormed(receivedData)) =>
    \A i \in 1..NumFields :
      payload_data[FieldOrder[i]] = NumericValue(strtok(receivedData)[i])

\* A well-formed frame was decoded over a different record, with a token
\* written with leading zeros among its tokens.
C6_Witness ==
  /\ pc = "decoded"
  /\ WellFormed(receivedData)
  /\ payload_data # prior
  /\ \E i \in 1..NumFields : strtok(receivedData)[i] = << "0", "0", "7" >>


(***************************************************************************)
(* getTelemetryPayload (main.cpp:350-425)                                  *)
(***************************************************************************)
\* sizeof(telemetry_payload); first a faulty, quarter-size buffer for comparison.
TelemetryPayloadSize_Small == Pow2(8)

TelemetryPayloadSize == 1024

\* The decimal text az_span_u32toa / az_span_i32toa write for v.
RECURSIVE DecString(_)
DecString(v) ==
  IF v < 0 THEN "-" \o DecString(0 - v)
  ELSE IF v < 10 THEN DigitChars[v + 1]
  ELSE DecString(v \div 10) \o DigitChars[(v % 10) + 1]

\* The quotient and the remainder of a uint32_t divided by 10.
U32Div10(x) ==
  LET t == (x[1] % 10) * Half + x[2]
  IN  [ q |-> << x[1] \div 10, t \div 10 >>, r |-> t % 10 ]

RECURSIVE U32DecString(_)
U32DecString(x) ==
  IF x[1] = 0 /\ x[2] < 10 THEN DigitChars[x[2] + 1]
  ELSE U32DecString(U32Div10(x).q) \o DigitChars[U32Div10(x).r + 1]

Copy(s) == [ op |-> "copy", s |-> s ]

\* az_span_i32toa of a field: the field's whole value, of either width.  The
\* faulty variant defined first writes the low byte only.
Num_LowByte(v) == [ op |-> "toa", s |-> DecString(v % Pow2(8)) ]

Num(v) == [ op |-> "toa", s |-> DecString(v) ]

NumU32(x) == [ op |-> "toa", s |-> U32DecString(x) ]
CopyU8  == [ op |-> "u8", s |-> "" ]

\* The calls getTelemetryPayload() makes on temp_span, in order.
EncodeOps(rec, count) ==
  << Copy("{ \"msgCount\": "),                 NumU32(count),
     Copy(", \"sensor_1_type\": \""),          Num(rec["sensor_1_type"]),
     Copy("\", \"sensor_1_temperature\": "),   Num(rec["sensor_1_temperature"]),
     Copy(", \"sensors_1_humidity\": "),       Num(rec["sensors_1_humidity"]),
     Copy(", \"sensor_1_light\": "),           Num(rec["sensor_1_light"]),
     Copy(", \"sensor_1_CO2\": "),             Num(rec["sensor_1_CO2"]),
     Copy(", \"sensor_2_type\": \""),          Num(rec["sensor_2_type"]),
     Copy("\", \"sensor_2_temperature\": "),   Num(rec["sensor_2_temperature"]),
     Copy(", \"sensors_2_humidity\": "),       Num(rec["sensors_2_humidity"]),
     Copy(", \"sensor_2_light\": "),           Num(rec["sensor_2_light"]),
     Copy(", \"sensor_2_CO2\": "),             Num(rec["sensor_2_CO2"]),
     Copy(", \"fan_1_type\": \""),             Num(rec["fan_1_type"]),
     Copy("\", \"fan_1_set_percent\": "),      Num(rec["fan_1_set_percent"]),
     Copy(", \"fan_1_speed\": "),              Num(rec["fan_1_speed"]),
     Copy(", \"fan_2_type\": \""),             Num(rec["fan_2_type"]),
     Copy("\", \"fan_2_set_percent\": "),      Num(rec["fan_2_set_percent"]),
     Copy(", \"fan_2_speed\": "),              Num(rec["fan_2_speed"]),
     Copy(", \"relay_CO2\": "),                Num(rec["relay_CO2"]),
     Copy(", \"relay_programmable_1\": \""),   Num(rec["relay_programmable_1"]),
     Copy("\""),
     Copy(", \"relay_programmable_2\": \""),   Num(rec["relay_programmable_2"]),
     Copy("\""),
     Copy(", \"pwm_light\": "),                Num(rec["pwm_light"]),
     Copy(" }"),
     CopyU8 >>

\* temp_span before the first call: the whole of telemetry_payload.
\* pos is the offset of the span's start, high one past the highest index
\* written so far, pieces the text written so far (without the final NUL).
EmptySpan == [ pos |-> 0, high |-> 0, pieces |-> << >> ]

Max(a, b) == IF a >= b THEN a ELSE b

\* One call on the span.  az_span_copy and az_span_copy_u8 move the bytes to
\* the start of the span and return the rest of it; they do not compare the
\* sizes (the SDK's precondition check is a build option, and the unchecked
\* build is the one that can write out of bounds).  az_span_u32toa and
\* az_span_i32toa return AZ_ERROR_NOT_ENOUGH_SPACE, write nothing and leave
\* the span as it was when the digits do not fit; the result is discarded.
SpanStep(sp, o) ==
  LET n == IF o.op = "u8" THEN 1 ELSE Len(o.s)
  IN  IF o.op = "toa" /\ TelemetryPayloadSize - sp.pos < n
      THEN sp
      ELSE [ pos    |-> sp.pos + n,
             high   |-> IF n > 0 THEN Max(sp.high, sp.pos + n) ELSE sp.high,
             pieces |-> IF o.op = "u8" THEN sp.pieces ELSE Append(sp.pieces, o.s) ]

\* The span after the first i calls of ops.
RECURSIVE SpanRun(_, _, _)
SpanRun(sp, ops, i) ==
  IF i > Len(ops) THEN sp
  ELSE LET nx == SpanStep(sp, ops[i])
       IN  IF nx.pos >= 0 THEN SpanRun(nx, ops, i + 1) ELSE nx

\* getTelemetryPayload(&payload_data) with telemetry_send_count = count.
getTelemetryPayload(rec, count) == SpanRun(EmptySpan, EncodeOps(rec, count), 1)

\* uint32_t telemetry_send_count++.  The faulty variant defined first counts
\* in steps of two.
NextCount_Twice(count) == U32Add(count, 2)

NextCount(count) == U32Add(count, 1)

(***************************************************************************)
(* Specification of the encoder alone: getTelemetryPayload() of one record *)
(***************************************************************************)
\* Records with every field at its maximum, at zero, and with one field
\* raised to its maximum.
EncodeRecords ==
  PriorRecords
    \cup { [ RecordOf(FrameA) EXCEPT ![f] = FieldMax(f) ] : f \in FieldNames }
    \cup { [ ZeroRecord EXCEPT ![f] = FieldMax(f) ] : f \in FieldNames }

\* Counter values: 0, the largest uint32_t, and the powers of ten up to
\* 10^MaxCountDigits (modulo 2^32) with their predecessors, where the number
\* of digits changes.
MaxCountDigits == 9

CountSamples ==
  { U32(0), U32Max, U32Pred(U32Max) }
    \cup { U32Pow10(d) : d \in 1..MaxCountDigits }
    \cup { U32Pred(U32Pow10(d)) : d \in 1..MaxCountDigits }

InitEncode ==
  /\ pc = "encode"
  /\ payload_data \in EncodeRecords
  /\ telemetry_send_count \in CountSamples
  /\ receivedData = << >>
  /\ prior = payload_data
  /\ telemetry_payload = << >>
  /\ written = 0
  /\ SessionIdle

Encode ==
  /\ pc = "encode"
  /\ LET sp == getTelemetryPayload(payload_data, telemetry_send_count)
     IN  /\ telemetry_payload' = sp.pieces
         /\ written' = sp.high
  /\ telemetry_send_count' = NextCount(telemetry_send_count)
  /\ pc' = "encoded"
  /\ UNCHANGED <<cfg, now, connected, subscribed, sas_token, cycle, lastAttempt, tick,
                 next_telemetry_send_time_ms, payload_data, receivedData, prior, lastPub>>

NextEncode == Encode

SpecEncode == InitEncode /\ [][NextEncode]_vars

\* C10: buffer safety of encode: getTelemetryPayload() writes only to indices
\* 0..sizeof(telemetry_payload)-1, the terminating NUL included, for every
\* record (field maxima included) and every counter up to 2^32-1.
C10_BufferSafety == written <= TelemetryPayloadSize

\* The record of field maxima was encoded with the largest counter, and the
\* payload with its NUL was written.
C10_Witness ==
  /\ pc = "encoded"
  /\ \A f \in FieldNames : payload_data[f] = FieldMax(f)
  /\ telemetry_send_count = U32(0)
  /\ written > 400


(***************************************************************************)
(* The session: setup(), loop(), establishConnection(), sendTelemetry()    *)
(***************************************************************************)
ONE_HOUR_IN_SECS == 3600

\* initializeTime() returns once time(NULL) has reached this value.
NTP_MIN_EPOCH == 1510592825

\* delay(5000) between two connect attempts, delay(100) after a publish,
\* delay(1000) at the end of loop(), delay(100) in connectToWiFi().
BACKOFF_MS == 5000
PUBLISH_DELAY_MS == 100
LOOP_DELAY_MS == 1000
WIFI_DELAY_MS == 100

\* millis(): unsigned long, 32 bits.
Millis(t) == U32Add(cfg.millisBase, t)

\* getSecondsSinceEpoch(): the clock was set by initializeTime().
SecondsSinceEpoch(t) == NTP_MIN_EPOCH + (t \div 1000)

\* TELEMETRY_FREQUENCY_MILLISECS comes from config.h, which is not part of the
\* sources: the model runs every interval of this set.
Intervals == { 2000 }

\* What the configuration decides once and for all: whether the device key
\* and the buffers let generateSasToken() succeed, whether client id and user
\* name can be built, whether the publish topic can be built, the interval.
\* millisBase and countBase are what millis() and telemetry_send_count read
\* where the run starts: 0 after a reset.
Configs ==
  [ signOk : BOOLEAN, idOk : BOOLEAN, topicOk : BOOLEAN, interval : Intervals,
    millisBase : { U32(0) }, countBase : { U32(0) } ]

\* Milliseconds the code between two delays takes beyond the delays.
MaxJitter == 1

\* Rejections the transport answers within one connect cycle, ticks of loop().
MaxRejects == 1
MaxTicks == 3

\* Lines arriving on the serial port while the agent runs.
NoLine == << "\n" >>

SerialLines ==
  { Join(FrameTokens(FrameA, NumFields)), Join(FrameTokens(FrameB, 3)) }

InitSession ==
  /\ now = 0
  /\ connected = FALSE
  /\ subscribed = FALSE
  /\ sas_token = NoToken
  /\ cycle = NoCycle
  /\ lastAttempt = NoAttempt
  /\ tick = NoTick
  /\ next_telemetry_send_time_ms = U32(0)
  /\ telemetry_send_count = U32(0)
  /\ payload_data = ZeroRecord
  /\ receivedData = << >>
  /\ prior = ZeroRecord
  /\ telemetry_payload = << >>
  /\ written = 0
  /\ lastPub = NoPub

Init ==
  /\ pc = "setup"
  /\ cfg \in Configs
  /\ InitSession

codecVars == <<payload_data, receivedData, prior>>
encodeVars == <<telemetry_send_count, telemetry_payload, written, lastPub>>
timerVars == <<tick, next_telemetry_send_time_ms>>

\* setup(): the pin, then establishConnection().
Setup ==
  /\ pc = "setup"
  /\ cycle' = [ NoCycle EXCEPT !.caller = "setup" ]
  /\ pc' = "establish"
  /\ UNCHANGED <<cfg, now, connected, subscribed, sas_token, lastAttempt>>
  /\ UNCHANGED <<codecVars, encodeVars, timerVars>>

\* establishConnection() up to generateSasToken(): connectToWiFi() drops the
\* association (and with it the transport's connection) and waits 100 ms;
\* initializeTime() and initializeClients() follow.  The waits for the
\* association and for the clock are taken at their shortest, none.
EstablishStart ==
  /\ pc = "establish"
  /\ now' = now + WIFI_DELAY_MS
  /\ connected' = FALSE
  /\ subscribed' = FALSE
  /\ pc' = "sign"
  /\ UNCHANGED <<cfg, sas_token, cycle, lastAttempt>>
  /\ UNCHANGED <<codecVars, encodeVars, timerVars>>

\* Where establishConnection() goes when generateSasToken() failed: past
\* connectToAzureIoTHub(), to its return (main.cpp:315-322).  The faulty
\* variant defined first connects all the same.
AfterSignFailure_Connect == "connect_prep"

AfterSignFailure == "established"

\* uint32_t expiration = getSecondsSinceEpoch() + ONE_HOUR_IN_SECS,
\* main.cpp:196 (the times of the model stay far below 2^32).  The faulty
\* variant defined first leaves the hour out.
SasExpiration_NoValidity(t) == SecondsSinceEpoch(t)

SasExpiration(t) == SecondsSinceEpoch(t) + ONE_HOUR_IN_SECS

\* generateSasToken(sas_token, sizeof sas_token), main.cpp:315: the local
\* variable expiration goes into the signature (az_iot_hub_client_sas_
\* get_signature, signedExpiry) and into the password (az_iot_hub_client_sas_
\* get_password, the se field, expiration); on failure establishConnection()
\* skips connectToAzureIoTHub().
GenerateSasToken ==
  /\ pc = "sign"
  /\ \/ /\ cfg.signOk
        /\ LET expiration == SasExpiration(now)
           IN  sas_token' = [ issuedAt     |-> SecondsSinceEpoch(now),
                              expiration   |-> expiration,
                              signedExpiry |-> expiration,
                              presented    |-> 0,
                              signed       |-> TRUE ]
        /\ pc' = "connect_prep"
        /\ UNCHANGED cycle
     \/ /\ ~cfg.signOk
        /\ cycle' = [ cycle EXCEPT !.result = "sign_failed" ]
        /\ pc' = AfterSignFailure
        /\ UNCHANGED sas_token
  /\ UNCHANGED <<cfg, now, connected, subscribed, lastAttempt>>
  /\ UNCHANGED <<codecVars, encodeVars, timerVars>>

\* connectToAzureIoTHub() up to its loop: client id and user name; return 1
\* when either cannot be built.
ConnectPrepare ==
  /\ pc = "connect_prep"
  /\ \/ /\ cfg.idOk
        /\ pc' = "connect_loop"
        /\ UNCHANGED cycle
     \/ /\ ~cfg.idOk
        /\ cycle' = [ cycle EXCEPT !.result = "id_failed" ]
        /\ pc' = "established"
  /\ UNCHANGED <<cfg, now, connected, subscribed, sas_token, lastAttempt>>
  /\ UNCHANGED <<codecVars, encodeVars, timerVars>>

\* mqtt_client.subscribe(AZ_IOT_HUB_CLIENT_C2D_SUBSCRIBE_TOPIC) after the
\* loop, main.cpp:300: in every call of connectToAzureIoTHub().  The faulty
\* variant defined first subscribes in the call made from setup() only.
SubscribeAfterLoop_FirstOnly == cycle.caller = "setup"

SubscribeAfterLoop == TRUE

\* while (!mqtt_client.connected()); after the loop the C2D subscription and
\* return 0.
ConnectLoopTest ==
  /\ pc = "connect_loop"
  /\ \/ /\ ~connected
        /\ pc' = "mqtt_connect"
        /\ UNCHANGED <<subscribed, cycle>>
     \/ /\ connected
        /\ subscribed' = SubscribeAfterLoop
        /\ cycle' = [ cycle EXCEPT !.result = "ok" ]
        /\ pc' = "established"
  /\ UNCHANGED <<cfg, now, connected, sas_token, lastAttempt>>
  /\ UNCHANGED <<codecVars, encodeVars, timerVars>>

\* Where connectToAzureIoTHub() goes after a rejected attempt: to the delay
\* and around the loop again.  The faulty variant defined first gives up and
\* returns.
AfterReject_GiveUp == "established"

AfterReject == "backoff"

\* Whether the hub can accept the credential: not once it has expired.
HubAccepts(t) == SecondsSinceEpoch(t) < sas_token.expiration

\* mqtt_client.connect(mqtt_client_id, mqtt_username, sas_token): the transport
\* accepts or rejects; the model follows at most maxRejects rejections a cycle.
MqttConnect(maxRejects) ==
  /\ pc = "mqtt_connect"
  /\ lastAttempt' = [ n          |-> lastAttempt.n + 1,
                      at         |-> now,
                      time       |-> SecondsSinceEpoch(now),
                      expiration |-> sas_token.expiration,
                      presented  |-> sas_token.presented + 1 ]
  /\ sas_token' = [ sas_token EXCEPT !.presented = @ + 1 ]
  /\ \/ /\ HubAccepts(now)
        /\ connected' = TRUE
        /\ cycle' = [ cycle EXCEPT !.attempts = @ + 1 ]
        /\ pc' = "connect_loop"
     \/ /\ cycle.rejects < maxRejects
        /\ cycle' = [ cycle EXCEPT !.attempts = @ + 1, !.rejects = @ + 1 ]
        /\ pc' = AfterReject
        /\ UNCHANGED connected
  /\ UNCHANGED <<cfg, now, subscribed>>
  /\ UNCHANGED <<codecVars, encodeVars, timerVars>>

\* delay(5000), main.cpp:296.
Backoff ==
  /\ pc = "backoff"
  /\ now' = now + BACKOFF_MS
  /\ cycle' = [ cycle EXCEPT !.backoffs = @ + 1 ]
  /\ pc' = "connect_loop"
  /\ UNCHANGED <<cfg, connected, subscribed, sas_token, lastAttempt>>
  /\ UNCHANGED <<codecVars, encodeVars, timerVars>>

\* establishConnection() returns: to setup(), which returns to the first
\* loop(), or to loop(), which goes on to sendTelemetry().
EstablishReturn ==
  /\ pc = "established"
  /\ pc' = IF cycle.caller = "setup" THEN "loop" ELSE "send"
  /\ UNCHANGED <<cfg, now, connected, subscribed, sas_token, cycle, lastAttempt>>
  /\ UNCHANGED <<codecVars, encodeVars, timerVars>>

\* The comparison of loop(), main.cpp:478.
Due_Inclusive(t, due) == U32Ge(t, due)

Due(t, due) == U32Gt(t, due)

\* loop() up to sendTelemetry(): read_serial_port(), which decodes a line when
\* one is waiting; then the timer, and when it is due the connection.
LoopTop ==
  /\ pc = "loop"
  /\ tick.n < MaxTicks
  /\ LET due == Due(Millis(now), next_telemetry_send_time_ms)
     IN  /\ \E line \in SerialLines \cup { NoLine } :
              /\ IF line = NoLine
                 THEN UNCHANGED codecVars
                 ELSE /\ receivedData' = line
                      /\ prior' = payload_data
                      /\ \E garbage \in GarbageChoices(payload_data) :
                           payload_data' = processData(line, garbage)
              /\ tick' = [ n       |-> tick.n + 1,
                           conn    |-> connected,
                           now     |-> Millis(now),
                           due     |-> next_telemetry_send_time_ms,
                           cycle   |-> due /\ ~connected,
                           pub     |-> FALSE,
                           decoded |-> line # NoLine,
                           count   |-> telemetry_send_count ]
         /\ \/ /\ ~due
               /\ pc' = "mqtt_loop"
               /\ UNCHANGED cycle
            \/ /\ due /\ connected
               /\ pc' = "send"
               /\ UNCHANGED cycle
            \/ /\ due /\ ~connected
               /\ cycle' = [ NoCycle EXCEPT !.caller = "loop" ]
               /\ pc' = "establish"
  /\ UNCHANGED <<cfg, now, connected, subscribed, sas_token, lastAttempt,
                 next_telemetry_send_time_ms, encodeVars>>

\* The record getTelemetryPayload() is handed, main.cpp:459: the global
\* payload_data as it is when sendTelemetry() runs.  The faulty variant
\* defined first sends the record as it was before the last decode.
RecordToSend_Previous == prior

RecordToSend == payload_data

\* sendTelemetry() and the assignment after it (main.cpp:486-488): the topic,
\* then the payload is built and handed to mqtt_client.publish(), delay(100);
\* next_telemetry_send_time_ms = millis() + TELEMETRY_FREQUENCY_MILLISECS.
\* The connection can be lost while the publish and the delay run.
SendTelemetry ==
  /\ pc = "send"
  /\ \/ /\ ~cfg.topicOk
        /\ next_telemetry_send_time_ms' = U32Add(Millis(now), cfg.interval)
        /\ UNCHANGED <<now, connected, subscribed, encodeVars, tick>>
     \/ /\ cfg.topicOk
        /\ LET sp == getTelemetryPayload(RecordToSend, telemetry_send_count)
           IN  /\ telemetry_payload' = sp.pieces
               /\ written' = sp.high
        /\ lastPub' = [ n          |-> lastPub.n + 1,
                        connected  |-> connected,
                        subscribed |-> subscribed,
                        msgCount   |-> telemetry_send_count,
                        at         |-> now ]
        /\ telemetry_send_count' = NextCount(telemetry_send_count)
        /\ tick' = [ tick EXCEPT !.pub = TRUE ]
        /\ now' = now + PUBLISH_DELAY_MS
        /\ next_telemetry_send_time_ms' = U32Add(Millis(now'), cfg.interval)
        /\ \/ UNCHANGED <<connected, subscribed>>
           \/ /\ connected
              /\ connected' = FALSE
              /\ subscribed' = FALSE
  /\ pc' = "mqtt_loop"
  /\ UNCHANGED <<cfg, sas_token, cycle, lastAttempt, codecVars>>

\* mqtt_client.loop() and delay(1000), main.cpp:492-494; the connection can
\* be lost meanwhile.
MqttLoop ==
  /\ pc = "mqtt_loop"
  /\ \E jitter \in 0..MaxJitter : now' = now + LOOP_DELAY_MS + jitter
  /\ \/ UNCHANGED <<connected, subscribed>>
     \/ /\ connected
        /\ connected' = FALSE
        /\ subscribed' = FALSE
  /\ pc' = "loop"
  /\ UNCHANGED <<cfg, sas_token, cycle, lastAttempt>>
  /\ UNCHANGED <<codecVars, encodeVars, timerVars>>

Next ==
  \/ Setup
  \/ EstablishStart
  \/ GenerateSasToken
  \/ ConnectPrepare
  \/ ConnectLoopTest
  \/ MqttConnect(MaxRejects)
  \/ Backoff
  \/ EstablishReturn
  \/ LoopTop
  \/ SendTelemetry
  \/ MqttLoop

Spec == Init /\ [][Next]_vars

(***************************************************************************)
(* Specification of the session after a long uptime: besides the runs from *)
(* reset in which the credential, the client id and the user name can be   *)
(* built, runs that start at the end of a publishing tick shortly before   *)
(* millis() or telemetry_send_count wraps                                  *)
(***************************************************************************)
\* Milliseconds left until millis() wraps where such a run starts.
MillisToWrap == { 1000, 2101 }

LongRunConfigs ==
  [ signOk : { TRUE }, idOk : { TRUE }, topicOk : { TRUE }, interval : Intervals,
    millisBase : { << Half - 1, Half - d >> : d \in MillisToWrap },
    countBase : { U32Pred(U32Max) } ]

\* The state after sendTelemetry() published the payload numbered countBase
\* at millis() = millisBase on a connection made at that time.
AfterPublish ==
  /\ pc = "mqtt_loop"
  /\ cfg \in LongRunConfigs
  /\ now = PUBLISH_DELAY_MS
  /\ connected = TRUE
  /\ subscribed = TRUE
  /\ sas_token = [ issuedAt     |-> SecondsSinceEpoch(0),
                   expiration   |-> SecondsSinceEpoch(0) + ONE_HOUR_IN_SECS,
                   signedExpiry |-> SecondsSinceEpoch(0) + ONE_HOUR_IN_SECS,
                   presented    |-> 1,
                   signed       |-> TRUE ]
  /\ cycle = [ caller |-> "loop", attempts |-> 1, rejects |-> 0, backoffs |-> 0,
               result |-> "ok" ]
  /\ lastAttempt = [ n |-> 1, at |-> 0, time |-> SecondsSinceEpoch(0),
                     expiration |-> SecondsSinceEpoch(0) + ONE_HOUR_IN_SECS,
                     presented |-> 1 ]
  /\ tick = [ n |-> 0, conn |-> FALSE, now |-> Millis(0), due |-> U32Pred(Millis(0)),
              cycle |-> TRUE, pub |-> TRUE, decoded |-> FALSE,
              count |-> cfg.countBase ]
  /\ next_telemetry_send_time_ms = U32Add(Millis(now), cfg.interval)
  /\ telemetry_send_count = NextCount(cfg.countBase)
  /\ payload_data = RecordOf(FrameA)
  /\ receivedData = Join(FrameTokens(FrameA, NumFields))
  /\ prior = ZeroRecord
  /\ LET sp == getTelemetryPayload(payload_data, cfg.countBase)
     IN  /\ telemetry_payload = sp.pieces
         /\ written = sp.high
  /\ lastPub = [ n |-> 1, connected |-> TRUE, subscribed |-> TRUE,
                 msgCount |-> cfg.countBase, at |-> 0 ]

InitLongRun == (Init /\ cfg.signOk /\ cfg.idOk) \/ AfterPublish

SpecLongRun == InitLongRun /\ [][Next]_vars

(***************************************************************************)
(* Specification of one connect cycle: setup() up to the return of         *)
(* establishConnection(), with the transport rejecting up to MaxRetries    *)
(* attempts, enough for the backoffs to add up to the credential's hour.   *)
(***************************************************************************)
MaxRetries == 721

NextConnect ==
  \/ Setup
  \/ EstablishStart
  \/ GenerateSasToken
  \/ ConnectPrepare
  \/ ConnectLoopTest
  \/ MqttConnect(MaxRetries)
  \/ Backoff

SpecConnect == Init /\ [][NextConnect]_vars

(***************************************************************************)
(* Session claims                                                          *)
(***************************************************************************)
\* C1: publish happens only in the Connected state: whenever sendTelemetry()
\* calls mqtt_client.publish(), the transport is connected at that moment.
C1_PublishOnlyConnected == lastPub.n > 0 => lastPub.connected

\* C2: every connect attempt uses a freshly signed credential: a new
\* generateSasToken() happens between any two calls of mqtt_client.connect(),
\* so no credential is presented to the transport twice.
C2_FreshCredentialEachAttempt == lastAttempt.presented <= 1

\* C3: no connect attempt is made with an expired credential: at every call
\* of mqtt_client.connect() the current time is strictly less than the
\* expiry of the sas_token presented.
C3_NoExpiredCredential ==
  lastAttempt.n > 0 => lastAttempt.time < lastAttempt.expiration

\* C7: transport rejection never ends the connect cycle in failure: after any
\* number of rejected attempts the cycle is still in its retry loop or has
\* returned connected (and subscribed) with result ok; every retry comes
\* after a backoff of 5 s since the rejected attempt; and an accepted attempt
\* leaves the loop at its next test.
C7_RejectionKeepsRetrying ==
  /\ cycle.rejects > 0 =>
       \/ pc \in { "backoff", "connect_loop", "mqtt_connect" }
       \/ cycle.result = "ok"
  /\ (pc = "established" /\ cycle.result = "ok") => (connected /\ subscribed)
  /\ (pc = "mqtt_connect" /\ cycle.attempts > 0) =>
       /\ cycle.backoffs = cycle.attempts
       /\ cycle.rejects = cycle.attempts
       /\ now - lastAttempt.at >= BACKOFF_MS
  /\ (connected /\ pc \in { "backoff", "connect_loop", "mqtt_connect", "established" })
       => (pc \in { "connect_loop", "established" } /\ cycle.result \in { "none", "ok" })

\* The cycle returned connected after the transport had rejected several
\* attempts, each followed by its backoff.
C7_Witness ==
  /\ pc = "established"
  /\ cycle.rejects >= 3
  /\ cycle.backoffs = cycle.rejects
  /\ connected

\* A configuration with which signing, client id, user name and publish
\* topic all succeed.
Nominal == cfg.signOk /\ cfg.idOk /\ cfg.topicOk

\* C8: a lost connection is detected at the top of every tick: a loop()
\* iteration that starts with the transport not connected starts a connect
\* cycle in that iteration, whether or not the publish timer is due (stated
\* for the nominal configurations).
C8_DisconnectDetectedEveryTick ==
  (pc = "mqtt_loop" /\ Nominal /\ ~tick.conn) => tick.cycle

\* C9: publish cadence (stated for the nominal configurations): a tick with
\* now >= next_telemetry_send_time_ms (equality included) publishes and sets
\* the due time to now + TELEMETRY_FREQUENCY_MILLISECS; a tick with now < the
\* due time publishes nothing and leaves the due time unchanged.
C9_PublishCadence ==
  (pc = "mqtt_loop" /\ Nominal) =>
    IF Due_Inclusive(tick.now, tick.due)
    THEN /\ tick.pub
         /\ next_telemetry_send_time_ms = U32Add(Millis(now), cfg.interval)
    ELSE /\ ~tick.pub
         /\ next_telemetry_send_time_ms = tick.due

(***************************************************************************)
(* Reading a payload: the text is the sequence of pieces the encoder wrote *)
(***************************************************************************)
\* The decimal text of v, most significant digit first.
RECURSIVE DigitsFrom(_, _)
DigitsFrom(v, p) ==
  IF p = 0 THEN ""
  ELSE DigitChars[((v \div p) % 10) + 1] \o DigitsFrom(v, p \div 10)

IntText(v) ==
  DigitsFrom(v, CHOOSE p \in { 1, 10, 100, 1000, 10000 } :
                  (p <= v \/ p = 1) /\ v < 10 * p)

\* The text that introduces the member name after an earlier member, as it
\* reads when both neighbouring values are bare numbers.
BareKey(name) == ", \"" \o name \o "\": "

\* The same with a quotation mark closing the value before it, opening the
\* value after it, or both.
KeyForms(name) ==
  { BareKey(name), BareKey(name) \o "\"", "\"" \o BareKey(name),
    "\"" \o BareKey(name) \o "\"" }

\* Where the key of member name stands in the payload.
KeyIndex(pieces, name) == { k \in 1..Len(pieces) : pieces[k] \in KeyForms(name) }

\* The digits that follow the key of member name ("" when the key is absent
\* or is the last piece).
MemberText(pieces, name) ==
  IF KeyIndex(pieces, name) = { } THEN ""
  ELSE LET k == CHOOSE k \in KeyIndex(pieces, name) : TRUE
       IN  IF k < Len(pieces) THEN pieces[k + 1] ELSE ""

\* C11: a publish carries the most recently decoded record: the field values
\* of the payload published in a tick are those of payload_data, which is the
\* record the last processData() before the publish produced (the same tick's
\* decode included); without a decode since the previous publish the same
\* values go out again.
C11_PublishCarriesLastDecoded ==
  (pc = "mqtt_loop" /\ tick.pub) =>
    /\ \A f \in FieldNames :
         MemberText(telemetry_payload, f) = IntText(payload_data[f])
    /\ receivedData # << >> =>
         \E garbage \in GarbageChoices(prior) :
           payload_data = processData(receivedData, garbage)

\* A tick decoded a line that changed the record and published it, after an
\* earlier publish.
C11_Witness ==
  /\ pc = "mqtt_loop"
  /\ tick.pub /\ tick.decoded
  /\ payload_data # prior
  /\ lastPub.n >= 2

\* C12: encode round trip: for every record within the field ranges the
\* payload holds, for each of the 20 fields, the field's key exactly once,
\* followed by the decimal digits of the value the field has in the record,
\* so that reading the payload key by key recovers the record.
C12_EncodeRoundTrip ==
  pc = "encoded" =>
    \A f \in FieldNames :
      /\ Cardinality(KeyIndex(telemetry_payload, f)) = 1
      /\ MemberText(telemetry_payload, f) = IntText(payload_data[f])

\* The record of field maxima was encoded, and the payload reads 65535 for a
\* 16-bit field and 255 for an 8-bit one.
C12_Witness ==
  /\ pc = "encoded"
  /\ payload_data = RecordOf(FrameB)
  /\ MemberText(telemetry_payload, "fan_2_speed") = "65535"
  /\ MemberText(telemetry_payload, "pwm_light") = "255"

\* C13: fixed payload shape: one JSON object whose members are msgCount and
\* then the 20 fields in the record's order, every member value a bare
\* decimal integer: each key is followed directly by the digits, and the
\* digits directly by the next key or the closing brace.
C13_FixedPayloadShape ==
  pc = "encoded" =>
    /\ Len(telemetry_payload) = 2 * (NumFields + 1) + 1
    /\ telemetry_payload[1] = "{ \"msgCount\": "
    /\ \A i \in 1..NumFields :
         telemetry_payload[2 * i + 1] = BareKey(FieldOrder[i])
    /\ telemetry_payload[Len(telemetry_payload)] = " }"

\* C14: telemetry_send_count starts at 0 and grows by exactly 1 (modulo 2^32)
\* each time a payload is built and at no other time: after k payloads it is
\* k (modulo 2^32) beyond its value where the run started, the k-th payload
\* carries the value before its increment, and a tick leaves the counter as
\* it found it unless it published (timer not due, or topic failure).
C14_CounterSequence ==
  /\ telemetry_send_count = U32Add(cfg.countBase, lastPub.n)
  /\ lastPub.n > 0 => lastPub.msgCount = U32Add(cfg.countBase, lastPub.n - 1)
  /\ pc = "setup" => telemetry_send_count = U32(0)
  /\ pc = "mqtt_loop" =>
       telemetry_send_count = IF tick.pub THEN U32Add(tick.count, 1) ELSE tick.count

\* The counter wrapped: the payload numbered 2^32 - 1 was published and the
\* counter reads 0.
C14_Witness ==
  /\ lastPub.msgCount = U32Max
  /\ telemetry_send_count = U32(0)
  /\ pc = "mqtt_loop" /\ tick.pub /\ tick.n > 0

\* C15: a signing failure is local and retried: in a connect cycle whose
\* generateSasToken() failed no mqtt_client.connect() is called and the
\* transport stays unconnected; establishConnection() returns to its caller,
\* which goes on (setup() to the first loop(), loop() to sendTelemetry());
\* and every tick that finds the publish due and the transport not connected
\* starts a connect cycle, which begins with generateSasToken() again.
C15_SignFailureRetried ==
  /\ [](cycle.result = "sign_failed" =>
          /\ cycle.attempts = 0
          /\ ~connected
          /\ pc \in { "established", "loop", "send", "mqtt_loop" })
  /\ [][ /\ (pc = "established" /\ cycle.result = "sign_failed") =>
              pc' = IF cycle.caller = "setup" THEN "loop" ELSE "send"
         /\ (pc = "loop" /\ ~connected
               /\ U32Gt(Millis(now), next_telemetry_send_time_ms)) =>
              (pc' = "establish" /\ cycle'.result = "none")
         /\ pc = "establish" => pc' = "sign" ]_vars

\* generateSasToken() is about to run in the third tick, in a cycle started
\* by loop(), with a configuration whose signing fails every time.
C15_Witness ==
  /\ pc = "sign"
  /\ ~cfg.signOk
  /\ cycle.caller = "loop"
  /\ tick.n >= 3

\* C16: the credential's expiry is consistent: after every successful
\* generateSasToken() at time now the expiry in the signed string and the
\* expiry in the token's se field are the same value, now + 3600 s.
C16_ExpiryConsistent ==
  sas_token.signed =>
    /\ sas_token.signedExpiry = sas_token.expiration
    /\ sas_token.expiration = sas_token.issuedAt + 3600

\* A credential signed by a connect cycle of loop(), later than the one of
\* setup().
C16_Witness ==
  /\ sas_token.signed
  /\ cycle.caller = "loop"
  /\ sas_token.issuedAt > NTP_MIN_EPOCH
  /\ pc = "connect_prep"

C18_NoStallAcrossWrap ==
  ( /\ pc \in { "loop", "mqtt_loop" }
    /\ Nominal
    /\ connected
    /\ lastPub.n > 0 /\ lastPub.connected )
  => now - lastPub.at <= cfg.interval + PUBLISH_DELAY_MS + LOOP_DELAY_MS + MaxJitter

\* C19: decode never writes outside its 20-slot scratch array: for a line of
\* any number of tokens (none, fewer than 20, 20, more than 20) the loop of
\* processData() writes values[i] only for the first 20 tokens and no other
\* slot, and the tokens after the 20th have no effect on the record: every
\* field is what the token at its place among the first 20 says.
C19_DecodeWithinScratch ==
  pc = "decoded" =>
    /\ SlotsWritten(receivedData) \subseteq 1..ValuesSize
    /\ \A i \in 1..ValuesSize :
         i <= NumTokens(receivedData) => i \in SlotsWritten(receivedData)
    /\ NumTokens(receivedData) > ValuesSize =>
         \A i \in 1..NumFields :
           IsNumeric(strtok(receivedData)[i]) =>
             payload_data[FieldOrder[i]]
               = NumericValue(strtok(receivedData)[i]) % Pow2(FieldWidth(FieldOrder[i]))

\* A line of 21 tokens was decoded over a different record.
C19_Witness ==
  /\ pc = "decoded"
  /\ NumTokens(receivedData) = ValuesSize + 1
  /\ payload_data # prior
  /\ payload_data = RecordOf(FrameA)

\* C20: the C2D subscription is made again on every connection: whenever
\* connectToAzureIoTHub() leaves its retry loop connected it subscribes before
\* it returns, so the transport is never connected without the subscription
\* outside that loop, and every publish on a connection comes after the
\* subscribe on that same connection.
C20_SubscribedOnEveryConnection ==
  /\ (pc = "established" /\ cycle.result = "ok") => subscribed
  /\ (connected /\ pc \notin { "connect_loop" }) => subscribed
  /\ (lastPub.n > 0 /\ lastPub.connected) => lastPub.subscribed

\* A tick found the transport not connected, connected again, subscribed and
\* published on the new connection.
C20_Witness ==
  /\ pc = "mqtt_loop"
  /\ tick.cycle /\ tick.pub
  /\ cycle.caller = "loop" /\ cycle.result = "ok"
  /\ lastPub.connected /\ lastPub.subscribed
  /\ tick.n >= 2

=============================================================================
